---- MODULE Spec2Model ----
(***************************************************************************)
(* The persistent key=value store of pkg/core/vars (vars.Map): an          *)
(* in-memory map M cached over a backing file, refreshed when the file's   *)
(* modification time is after the time of the last load.                   *)
(*                                                                         *)
(* Strings are sequences of one-character strings, so that escaping,       *)
(* line splitting and key=value splitting are computed, not assumed.       *)
(***************************************************************************)
EXTENDS Integers, Sequences, FiniteSets, TLC

\* ------------------------------------------------------------------ bounds
\* Largest modification time the file system clock hands out.
MaxClock == 2
\* Number of calls the callers make in one run.
MaxCalls == 2

\* ------------------------------------------------------------- characters
LF == "\n"
CR == "\r"
BSL == "\\"
EQ == "="

\* The callers (goroutines) of the two-caller specification.
Procs == {1, 2}

\* ------------------------------------------------------- string functions
\* to.EscReturns: CR and LF become the two characters \r and \n; every
\* other character, the backslash included, is copied.
RECURSIVE EscReturns(_)
EscReturns(s) ==
    IF s = <<>> THEN <<>>
    ELSE IF Head(s) = CR THEN <<BSL, "r">> \o EscReturns(Tail(s))
    ELSE IF Head(s) = LF THEN <<BSL, "n">> \o EscReturns(Tail(s))
    ELSE <<Head(s)>> \o EscReturns(Tail(s))

\* to.UnEscReturns: a backslash followed by r or n becomes CR or LF; every
\* other character is copied.
RECURSIVE UnEscReturns(_)
UnEscReturns(s) ==
    IF s = <<>> THEN <<>>
    ELSE IF Head(s) = BSL /\ Len(s) > 1 /\ s[2] = "r"
        THEN <<CR>> \o UnEscReturns(Tail(Tail(s)))
    ELSE IF Head(s) = BSL /\ Len(s) > 1 /\ s[2] = "n"
        THEN <<LF>> \o UnEscReturns(Tail(Tail(s)))
    ELSE <<Head(s)>> \o UnEscReturns(Tail(s))

\* Index of the first occurrence of character c in s, 0 when there is none.
RECURSIVE IndexFrom(_, _, _)
IndexFrom(s, c, i) ==
    IF i > Len(s) THEN 0
    ELSE IF s[i] = c THEN i
    ELSE IndexFrom(s, c, i + 1)

Index(s, c) == IndexFrom(s, c, 1)

\* to.Lines: the text cut at every LF; text after the last LF is a line
\* when it is not empty.
RECURSIVE Lines(_)
Lines(s) ==
    IF s = <<>> THEN <<>>
    ELSE LET i == Index(s, LF)
         IN IF i = 0 THEN <<s>>
            ELSE <<SubSeq(s, 1, i - 1)>> \o Lines(SubSeq(s, i + 1, Len(s)))

\* SplitN with a slip: the line is cut at its last "=", not its first.
SplitNLast(line) ==
    LET eqs == {j \in 1..Len(line) : line[j] = EQ}
    IN IF eqs = {} THEN <<line>>
       ELSE LET i == CHOOSE j \in eqs : \A h \in eqs : h <= j
            IN <<SubSeq(line, 1, i - 1), SubSeq(line, i + 1, Len(line))>>

\* strings.SplitN(line, "=", 2): one part when the line has no "=", else
\* the text before the first "=" and the text after it.
SplitN(line) ==
    LET i == Index(line, EQ)
    IN IF i = 0 THEN <<line>>
       ELSE <<SubSeq(line, 1, i - 1), SubSeq(line, i + 1, Len(line))>>

\* ------------------------------------------------------------ map helpers
\* The empty map (map[string]string{}).
EmptyMap == [k \in {} |-> <<>>]

\* m[k] = v
Put(m, k, v) == [x \in (DOMAIN m) \cup {k} |-> IF x = k THEN v ELSE m[x]]

\* delete(m, k)
Del(m, k) == [x \in (DOMAIN m) \ {k} |-> m[x]]

\* UnmarshalLine with a slip: a key already in the map keeps its value.
UnmarshalLineKeepsOld(m, line) ==
    LET parts == SplitN(line)
    IN IF Len(parts) = 2 /\ parts[1] \notin DOMAIN m
       THEN Put(m, parts[1], UnEscReturns(parts[2]))
       ELSE m

\* The body of the loop of UnmarshalText for one line.
UnmarshalLine(m, line) ==
    LET parts == SplitN(line)
    IN IF Len(parts) = 2 THEN Put(m, parts[1], UnEscReturns(parts[2])) ELSE m

\* The loop of UnmarshalText over lines, first to last.
RECURSIVE UnmarshalLines(_, _)
UnmarshalLines(m, lines) ==
    IF lines = <<>> THEN m
    ELSE UnmarshalLines(UnmarshalLine(m, Head(lines)), Tail(lines))

\* What parsing a text into an empty map gives.
Parse(text) == UnmarshalLines(EmptyMap, Lines(text))

\* One line of MarshalText.
MarshalLine(k, v) == k \o <<EQ>> \o EscReturns(v) \o <<LF>>

\* The texts MarshalText can return for m: one line per entry, in any order
\* (the iteration order of a Go map is not specified).
RECURSIVE MarshalTexts(_)
MarshalTexts(m) ==
    IF DOMAIN m = {} THEN {<<>>}
    ELSE UNION {{MarshalLine(k, m[k]) \o rest : rest \in MarshalTexts(Del(m, k))}
                : k \in DOMAIN m}

\* ---------------------------------------------------------- data domains
KA == <<"a">>
KB == <<"b">>
\* Keys the callers use.
Keys == {KA, KB}
\* Values of the two-caller specification.
Vals == {<<"1">>, <<"2">>}
\* Values of the one-caller specification: plain, empty, a line feed, and
\* a backslash followed by n.
ValsEnv == {<<"1">>, <<>>, <<LF>>, <<BSL, "n">>}
\* Texts given to Load.
Texts == {<<"b", "=", "2">>,
          <<"a", "=", "1", LF, "x", LF, "b", "=", "2", LF,
            "a", "=", "2", "=", "2", LF>>}
\* Patterns given to Match: a literal, any character, and one that does not
\* compile.
Patterns == {<<"a">>, <<".">>, <<"(">>}
\* Contents of the backing file before the store is constructed, and texts
\* an external writer puts in it.
\* Keys a caller may pass: Set and Get take any string.
KeysAny == {KA, <<>>, <<"a", EQ, "b">>}

FileTexts == {<<"a", "=", "2", LF, "a", "=", "1", LF>>,
              <<"a", "=", "1", LF, "b", "=", "2", LF>>}

\* ------------------------------------------------------------------ state
VARIABLES
    M,          \* Map.M, the in-memory entries
    lastload,   \* Map.lastload
    mutex,      \* Map.Mutex: 0 when free, else the caller holding it
    disk,       \* the backing file Map.File: [exists, content, mtime]
    pc,         \* pc[p]: where caller p is in its call
    op,         \* op[p]: the call p is in (or made last): [name, key, val]
    buf,        \* buf[p]: the text p is unmarshalling (file content or Load text)
    idx,        \* idx[p]: number of lines of buf[p] the loop has processed
    out,        \* out[p]: the text MarshalText returned to p's save
    ret,        \* ret[p]: what p's last call returned: [err, val]
    wrote,      \* wrote[p]: p's call has overwritten the file
    fatal,      \* "none", or why the process died: "panic", "race"
    calls,      \* number of calls made
    pre,        \* pre[p]: M when p's UnmarshalText took the lock (history)
    prev,       \* prev[p]: the call p completed before its current one (history)
    quiet,      \* quiet[p]: no external change since p's call began (history)
    stale,      \* stale[p]: the file was newer than lastload when p's call began (history)
    torn,       \* a Get or Match returned a value of a half-merged map (history)
    extEver,    \* the file has been rewritten or removed from outside (history)
    was,        \* was[p]: M, lastload, the file and File when p's call began (history)
    File,       \* Map.File: NoPath when not set, else FilePath
    dflt        \* the file at the default path exists

vars == <<M, lastload, mutex, disk, pc, op, buf, idx, out, ret, wrote, fatal,
          calls, pre, prev, quiet, stale, torn, extEver, was, File, dflt>>

NoOp == [name |-> "none", key |-> <<>>, val |-> <<>>]
NoRet == [err |-> "none", val |-> <<>>]
NoPrev == [op |-> NoOp, ret |-> NoRet]
NoFile == [exists |-> FALSE, content |-> <<>>, mtime |-> 0]

\* Map.File not set (the empty string), the path the store was given, and
\* the default path: the state directory joined with DefaultFileName.
NoPath == ""
FilePath == "file"
DefaultPath == "statedir/vars.properties"

\* os.Stat and os.Open of Map.File succeed: the empty path names no file.
Exists == File # NoPath /\ disk.exists

\* Before any call.
NoWas == [M |-> EmptyMap, lastload |-> 0, disk |-> NoFile, File |-> NoPath]

\* The state after NewMap(): an empty map, the zero time as lastload, and at
\* the path FilePath a file that is missing or holds some text written
\* earlier (at time 1, after the zero time).
InitStore ==
    /\ was = [p \in Procs |-> NoWas]
    /\ M = EmptyMap
    /\ lastload = 0
    /\ mutex = 0
    /\ disk \in {NoFile} \cup
                {[exists |-> TRUE, content |-> t, mtime |-> 1] : t \in FileTexts}
    /\ pc = [p \in Procs |-> "idle"]
    /\ op = [p \in Procs |-> NoOp]
    /\ buf = [p \in Procs |-> <<>>]
    /\ idx = [p \in Procs |-> 0]
    /\ out = [p \in Procs |-> <<>>]
    /\ ret = [p \in Procs |-> NoRet]
    /\ wrote = [p \in Procs |-> FALSE]
    /\ fatal = "none"
    /\ calls = 0
    /\ pre = [p \in Procs |-> EmptyMap]
    /\ prev = [p \in Procs |-> NoPrev]
    /\ quiet = [p \in Procs |-> TRUE]
    /\ stale = [p \in Procs |-> FALSE]
    /\ torn = FALSE
    /\ extEver = FALSE

\* The store was given the path of its file, and nothing is at the default
\* path.
Init == File = FilePath /\ dflt = FALSE /\ InitStore

\* The store may have been left without a path, as NewMap() leaves it.
InitApi == File \in {NoPath, FilePath} /\ dflt \in BOOLEAN /\ InitStore

\* ------------------------------------------------------------ the callers
Result(e, v) == [err |-> e, val |-> v]

\* regexp.MustCompile succeeds: the patterns here are literals and ".",
\* and "(" is a missing closing parenthesis.
Compiles(rx) == Index(rx, "(") = 0

\* regexp.MatchString: the pattern matches somewhere in k ("." is any
\* character but LF).
MatchString(rx, k) ==
    \E s \in 0..(Len(k) - Len(rx)) :
        \A i \in 1..Len(rx) :
            \/ rx[i] = k[s + i]
            \/ rx[i] = "." /\ k[s + i] # LF

\* The lookup with a slip: an entry whose value is the empty string counts
\* as missing.
LookupNonEmpty(m, k) ==
    IF k \in DOMAIN m /\ m[k] # <<>>
    THEN Result("nil", m[k])
    ELSE Result("NotFound", k)

\* What the lookup of Get returns on map m.
Lookup(m, k) ==
    IF k \in DOMAIN m THEN Result("nil", m[k]) ELSE Result("NotFound", k)

\* What the scan of Match can return on map m: the value of any matching
\* key (the first the iteration meets), NotFound when none matches.
MatchResults(m, rx) ==
    IF \E k \in DOMAIN m : MatchString(rx, k)
    THEN {Result("nil", m[k]) : k \in {x \in DOMAIN m : MatchString(rx, x)}}
    ELSE {Result("NotFound", rx)}

\* A caller starts call o at step first.
Begin(p, o, first) ==
    /\ fatal = "none"
    /\ pc[p] = "idle"
    /\ calls < MaxCalls
    /\ calls' = calls + 1
    /\ op' = [op EXCEPT ![p] = o]
    /\ pc' = [pc EXCEPT ![p] = first]
    /\ ret' = [ret EXCEPT ![p] = NoRet]
    /\ wrote' = [wrote EXCEPT ![p] = FALSE]
    /\ prev' = [prev EXCEPT ![p] =
                  IF quiet[p] THEN [op |-> op[p], ret |-> ret[p]] ELSE NoPrev]
    /\ quiet' = [quiet EXCEPT ![p] = TRUE]
    /\ stale' = [stale EXCEPT ![p] = Exists /\ disk.mtime > lastload]
    /\ was' = [was EXCEPT ![p] =
                 [M |-> M, lastload |-> lastload, disk |-> disk, File |-> File]]
    /\ UNCHANGED <<mutex, disk, buf, idx, out, fatal, pre, torn, extEver, File, dflt>>

\* A caller calls a method of the store.
Call(p, o, first) == Begin(p, o, first) /\ UNCHANGED <<M, lastload>>

\* A caller's call returns.
Return(p, r) ==
    /\ pc' = [pc EXCEPT ![p] = "idle"]
    /\ ret' = [ret EXCEPT ![p] = r]
    /\ buf' = [buf EXCEPT ![p] = <<>>]
    /\ idx' = [idx EXCEPT ![p] = 0]
    /\ out' = [out EXCEPT ![p] = <<>>]
    /\ pre' = [pre EXCEPT ![p] = EmptyMap]

\* A caller moves to its next step.
Goto(p, step) == pc' = [pc EXCEPT ![p] = step]

At(p, step) == fatal = "none" /\ pc[p] = step

CallGet(p, K) ==
    \E k \in K : Call(p, [name |-> "Get", key |-> k, val |-> <<>>], "refresh")

CallMatch(p) ==
    \E rx \in Patterns :
        Call(p, [name |-> "Match", key |-> rx, val |-> <<>>], "refresh")

CallSet(p, K, V) ==
    \E k \in K, v \in V :
        Call(p, [name |-> "Set", key |-> k, val |-> v], "refresh")

CallDelete(p, K) ==
    \E k \in K : Call(p, [name |-> "Delete", key |-> k, val |-> <<>>], "refresh")

CallClear(p) ==
    Call(p, [name |-> "Clear", key |-> <<>>, val |-> <<>>], "lock")

CallLoad(p) ==
    \E t \in Texts :
        Call(p, [name |-> "Load", key |-> <<>>, val |-> t], "lock")

\* Another caller is about to assign lastload in loadFile, without the
\* lock: a read of lastload now is a data race.
LastloadRace(p) == \E q \in Procs \ {p} : pc[q] = "fstat"

\* fileHasChanged with a slip: only a missing file counts as changed, the
\* modification time is not compared.
fileHasChangedMissingOnly(p) ==
    /\ At(p, "refresh")
    /\ Goto(p, IF ~Exists THEN "open" ELSE "op")
    /\ UNCHANGED <<M, lastload, mutex, disk, op, buf, idx, out, ret, wrote,
                   fatal, calls, extEver, was, File, dflt, pre, prev, quiet, stale, torn>>

\* Map.fileHasChanged as called by Map.refresh: os.Stat fails, or the
\* file's modification time is after lastload. A racing read of lastload
\* can give either answer.
fileHasChanged(p) ==
    /\ At(p, "refresh")
    /\ \E changed \in BOOLEAN :
        /\ \/ changed = (~Exists \/ disk.mtime > lastload)
           \/ Exists /\ LastloadRace(p)
        /\ Goto(p, IF changed THEN "open" ELSE "op")
    /\ UNCHANGED <<M, lastload, mutex, disk, op, buf, idx, out, ret, wrote,
                   fatal, calls, extEver, was, File, dflt, pre, prev, quiet, stale, torn>>

\* Map.loadFile, os.Open fails: Delete and NewMapFrom return the error,
\* Get, Match and Set drop it and go on.
loadFileError(p) ==
    /\ At(p, "open")
    /\ ~Exists
    /\ IF op[p].name \in {"Delete", "NewMapFrom"}
       THEN Return(p, Result("IOError", <<>>))
       ELSE Goto(p, "op") /\ UNCHANGED <<buf, idx, out, ret, pre>>
    /\ UNCHANGED <<M, lastload, mutex, disk, op, wrote, fatal, calls, extEver, was, File, dflt, prev,
                   quiet, stale, torn>>

\* Map.loadFile, os.Open and io.ReadAll.
loadFileRead(p) ==
    /\ At(p, "open")
    /\ Exists
    /\ buf' = [buf EXCEPT ![p] = disk.content]
    /\ Goto(p, "fstat")
    /\ UNCHANGED <<M, lastload, mutex, disk, op, idx, out, ret, wrote, fatal,
                   calls, extEver, was, File, dflt, pre, prev, quiet, stale, torn>>

\* Map.loadFile, f.Stat and the assignment of lastload: the modification
\* time now, not that of the content read. Then Load(string(buf)).
loadFileStat(p) ==
    /\ At(p, "fstat")
    /\ lastload' = disk.mtime
    /\ Goto(p, "lock")
    /\ UNCHANGED <<M, mutex, disk, op, buf, idx, out, ret, wrote, fatal,
                   calls, extEver, was, File, dflt, pre, prev, quiet, stale, torn>>

\* UnmarshalText with a slip: the map is emptied before the lines are
\* merged (replace, not merge).
UnmarshalTextLockReplace(p) ==
    /\ At(p, "lock")
    /\ op[p].name # "Clear"
    /\ mutex = 0
    /\ mutex' = p
    /\ M' = EmptyMap
    /\ buf' = [buf EXCEPT ![p] = IF op[p].name = "Load" THEN op[p].val ELSE @]
    /\ idx' = [idx EXCEPT ![p] = 0]
    /\ pre' = [pre EXCEPT ![p] = M]
    /\ Goto(p, "parse")
    /\ UNCHANGED <<lastload, disk, op, out, ret, wrote, fatal, calls, extEver, was, File, dflt, prev,
                   quiet, stale, torn>>

\* Map.UnmarshalText takes the lock; for Load the text is the argument.
UnmarshalTextLock(p) ==
    /\ At(p, "lock")
    /\ op[p].name # "Clear"
    /\ mutex = 0
    /\ mutex' = p
    /\ buf' = [buf EXCEPT ![p] = IF op[p].name = "Load" THEN op[p].val ELSE @]
    /\ idx' = [idx EXCEPT ![p] = 0]
    /\ pre' = [pre EXCEPT ![p] = M]
    /\ Goto(p, "parse")
    /\ UNCHANGED <<M, lastload, disk, op, out, ret, wrote, fatal, calls, extEver, was, File, dflt,
                   prev, quiet, stale, torn>>

\* One turn of the loop of Map.UnmarshalText.
UnmarshalTextLine(p) ==
    /\ At(p, "parse")
    /\ idx[p] < Len(Lines(buf[p]))
    /\ M' = UnmarshalLine(M, Lines(buf[p])[idx[p] + 1])
    /\ idx' = [idx EXCEPT ![p] = @ + 1]
    /\ UNCHANGED <<lastload, mutex, disk, pc, op, buf, out, ret, wrote, fatal,
                   calls, extEver, was, File, dflt, pre, prev, quiet, stale, torn>>

\* Map.UnmarshalText returns nil and unlocks. Load and NewMapFrom return;
\* the other calls go on after their refresh.
UnmarshalTextUnlock(p) ==
    /\ At(p, "parse")
    /\ idx[p] = Len(Lines(buf[p]))
    /\ mutex' = 0
    /\ IF op[p].name \in {"Load", "NewMapFrom"}
       THEN Return(p, Result("nil", <<>>))
       ELSE /\ Goto(p, "op")
            /\ buf' = [buf EXCEPT ![p] = <<>>]
            /\ idx' = [idx EXCEPT ![p] = 0]
            /\ pre' = [pre EXCEPT ![p] = EmptyMap]
            /\ UNCHANGED <<out, ret>>
    /\ UNCHANGED <<M, lastload, disk, op, wrote, fatal, calls, extEver, was, File, dflt, prev, quiet,
                   stale, torn>>

\* The results the Get or Match o can return on map m.
ResultsOn(m, o) ==
    IF o.name = "Get" THEN {Lookup(m, o.key)} ELSE MatchResults(m, o.key)

\* A Get or Match of p that returns r reads a half-merged map: a reload by
\* another caller is inside its loop, and r is what neither the map before
\* that reload nor the map after it gives.
HalfMerged(p, r) ==
    \E q \in Procs \ {p} :
        /\ pc[q] = "parse"
        /\ op[q].name # "Load"
        /\ r \notin ResultsOn(pre[q], op[p])
        /\ r \notin ResultsOn(UnmarshalLines(pre[q], Lines(buf[q])), op[p])

\* Map.Get after its refresh: the lookup, without the lock.
GetLookup(p) ==
    /\ At(p, "op")
    /\ op[p].name = "Get"
    /\ LET r == Lookup(M, op[p].key)
       IN /\ Return(p, r)
          /\ torn' = (torn \/ HalfMerged(p, r))
    /\ UNCHANGED <<M, lastload, mutex, disk, op, wrote, fatal, calls, extEver, was, File, dflt, prev,
                   quiet, stale>>

\* Map.Match after its refresh, regexp.MustCompile panics: nothing in the
\* store recovers, the process dies.
MatchPanic(p) ==
    /\ At(p, "op")
    /\ op[p].name = "Match"
    /\ ~Compiles(op[p].key)
    /\ fatal' = "panic"
    /\ UNCHANGED <<M, lastload, mutex, disk, pc, op, buf, idx, out, ret, wrote,
                   calls, extEver, was, File, dflt, pre, prev, quiet, stale, torn>>

\* Map.Match after its refresh: the scan of the map, without the lock.
MatchScan(p) ==
    /\ At(p, "op")
    /\ op[p].name = "Match"
    /\ Compiles(op[p].key)
    /\ \E r \in MatchResults(M, op[p].key) :
        /\ Return(p, r)
        /\ torn' = (torn \/ HalfMerged(p, r))
    /\ UNCHANGED <<M, lastload, mutex, disk, op, wrote, fatal, calls, extEver, was, File, dflt, prev,
                   quiet, stale>>

\* Map.Set after its refresh, the key already maps to the value: return nil
\* without saving.
SetSame(p) ==
    /\ At(p, "op")
    /\ op[p].name = "Set"
    /\ op[p].key \in DOMAIN M
    /\ M[op[p].key] = op[p].val
    /\ Return(p, Result("nil", <<>>))
    /\ UNCHANGED <<M, lastload, mutex, disk, op, wrote, fatal, calls, extEver, was, File, dflt, prev,
                   quiet, stale, torn>>

\* Map.Set after its refresh, otherwise: assign, without the lock, then save.
SetStore(p) ==
    /\ At(p, "op")
    /\ op[p].name = "Set"
    /\ ~(op[p].key \in DOMAIN M /\ M[op[p].key] = op[p].val)
    /\ M' = Put(M, op[p].key, op[p].val)
    /\ Goto(p, "marshal")
    /\ UNCHANGED <<lastload, mutex, disk, op, buf, idx, out, ret, wrote, fatal,
                   calls, extEver, was, File, dflt, pre, prev, quiet, stale, torn>>

\* Delete with a slip: the whole map is emptied, not the one key removed.
DeleteKeyAll(p) ==
    /\ At(p, "op")
    /\ op[p].name = "Delete"
    /\ M' = EmptyMap
    /\ Goto(p, "marshal")
    /\ UNCHANGED <<lastload, mutex, disk, op, buf, idx, out, ret, wrote, fatal,
                   calls, extEver, was, File, dflt, pre, prev, quiet, stale, torn>>

\* Map.Delete after a refresh without error: delete, without the lock, then
\* save.
DeleteKey(p) ==
    /\ At(p, "op")
    /\ op[p].name = "Delete"
    /\ M' = Del(M, op[p].key)
    /\ Goto(p, "marshal")
    /\ UNCHANGED <<lastload, mutex, disk, op, buf, idx, out, ret, wrote, fatal,
                   calls, extEver, was, File, dflt, pre, prev, quiet, stale, torn>>

\* MarshalText with a slip: only the entry of the call's key is written,
\* not the whole map.
MarshalTextOneEntry(p) ==
    /\ At(p, "marshal")
    /\ mutex = 0
    /\ out' = [out EXCEPT ![p] =
                 IF op[p].key \in DOMAIN M
                 THEN MarshalLine(op[p].key, M[op[p].key])
                 ELSE <<>>]
    /\ Goto(p, "write")
    /\ UNCHANGED <<M, lastload, mutex, disk, op, buf, idx, ret, wrote, fatal,
                   calls, extEver, was, File, dflt, pre, prev, quiet, stale, torn>>

\* Map.save calls MarshalText, whose receiver is a copy of the store, the
\* mutex included: the lock it takes is the copy's. Here the copy was made
\* while the store's mutex was free, so the copy's Lock succeeds; the text
\* is built from the shared map.
MarshalText(p) ==
    /\ At(p, "marshal")
    /\ mutex = 0
    /\ \E t \in MarshalTexts(M) : out' = [out EXCEPT ![p] = t]
    /\ Goto(p, "write")
    /\ UNCHANGED <<M, lastload, mutex, disk, op, buf, idx, ret, wrote, fatal,
                   calls, extEver, was, File, dflt, pre, prev, quiet, stale, torn>>

\* Map.save calls MarshalText while another caller holds the store's mutex:
\* the copy is a locked mutex nobody unlocks, and Lock on it never returns.
MarshalTextBlocked(p) ==
    /\ At(p, "marshal")
    /\ mutex # 0
    /\ Goto(p, "hung")
    /\ UNCHANGED <<M, lastload, mutex, disk, op, buf, idx, out, ret, wrote,
                   fatal, calls, extEver, was, File, dflt, pre, prev, quiet, stale, torn>>

\* Modification times a write now can give the file: that of the last
\* write (same clock tick) or a later one; at least 1, the zero time being
\* before every file.
WriteTimes ==
    {IF disk.mtime = 0 THEN 1 ELSE disk.mtime}
        \cup {t \in {disk.mtime + 1} : t <= MaxClock}

\* futil.Overwrite(m.File, text) as called by Map.save: the file holds
\* exactly the text, and is created when missing.
Overwrite(p) ==
    /\ At(p, "write")
    /\ File # NoPath
    /\ \E t \in WriteTimes :
        disk' = [exists |-> TRUE, content |-> out[p], mtime |-> t]
    /\ wrote' = [wrote EXCEPT ![p] = TRUE]
    /\ Return(p, Result("nil", <<>>))
    /\ UNCHANGED <<M, lastload, mutex, op, fatal, calls, extEver, was, File, dflt, prev, quiet, stale,
                   torn>>

\* Map.save when Map.File is not set: no file can be created at the empty
\* path, and save returns the error.
OverwriteError(p) ==
    /\ At(p, "write")
    /\ File = NoPath
    /\ Return(p, Result("IOError", <<>>))
    /\ UNCHANGED <<M, lastload, mutex, disk, op, wrote, fatal, calls, extEver, was,
                   File, dflt, prev, quiet, stale, torn>>

\* ------------------------------------------------------------- Map.Init
CallInit(p) == Call(p, [name |-> "Init", key |-> <<>>, val |-> <<>>], "init")

\* Init takes Map.File as the path to ensure, or the default path when
\* Map.File is not set. The path is a local of Init: Map.File is not
\* assigned.
InitPath(p) ==
    /\ At(p, "init")
    /\ Goto(p, IF File # NoPath THEN "existsFile" ELSE "existsDefault")
    /\ UNCHANGED <<M, lastload, mutex, disk, op, buf, idx, out, ret, wrote,
                   fatal, calls, extEver, was, File, dflt, pre, prev, quiet,
                   stale, torn>>

\* defaultFile cannot determine the state directory: Init returns the error.
InitDefaultFileError(p) ==
    /\ At(p, "init")
    /\ File = NoPath
    /\ Return(p, Result("IOError", <<>>))
    /\ UNCHANGED <<M, lastload, mutex, disk, op, wrote, fatal, calls, extEver,
                   was, File, dflt, prev, quiet, stale, torn>>

\* futil.Exists(file): Init returns nil when the file is there.
InitExists(p) ==
    /\ fatal = "none"
    /\ pc[p] \in {"existsFile", "existsDefault"}
    /\ LET there == IF pc[p] = "existsFile" THEN disk.exists ELSE dflt IN
        \/ there /\ Return(p, Result("nil", <<>>))
        \/ /\ ~there
           /\ Goto(p, IF pc[p] = "existsFile" THEN "touchFile"
                                               ELSE "touchDefault")
           /\ UNCHANGED <<buf, idx, out, ret, pre>>
    /\ UNCHANGED <<M, lastload, mutex, disk, op, wrote, fatal, calls, extEver,
                   was, File, dflt, prev, quiet, stale, torn>>

\* futil.Touch(file): the missing file is created empty.
InitTouch(p) ==
    /\ fatal = "none"
    /\ pc[p] \in {"touchFile", "touchDefault"}
    /\ IF pc[p] = "touchFile"
       THEN /\ \E t \in WriteTimes :
                 disk' = [exists |-> TRUE, content |-> <<>>, mtime |-> t]
            /\ dflt' = dflt
       ELSE dflt' = TRUE /\ disk' = disk
    /\ Return(p, Result("nil", <<>>))
    /\ UNCHANGED <<M, lastload, mutex, op, wrote, fatal, calls, extEver, was,
                   File, prev, quiet, stale, torn>>

\* Map.Clear takes the lock.
ClearLock(p) ==
    /\ At(p, "lock")
    /\ op[p].name = "Clear"
    /\ mutex = 0
    /\ mutex' = p
    /\ Goto(p, "clear")
    /\ UNCHANGED <<M, lastload, disk, op, buf, idx, out, ret, wrote, fatal,
                   calls, extEver, was, File, dflt, pre, prev, quiet, stale, torn>>

\* Clear with a slip: the emptied map is saved as well.
ClearAndSave(p) ==
    /\ At(p, "clear")
    /\ M' = EmptyMap
    /\ mutex' = 0
    /\ Goto(p, "marshal")
    /\ UNCHANGED <<lastload, disk, op, buf, idx, out, ret, wrote, fatal, calls,
                   extEver, was, File, dflt, pre, prev, quiet, stale, torn>>

\* Map.Clear: maps.Clear(m.M), unlock, return nil.
Clear(p) ==
    /\ At(p, "clear")
    /\ M' = EmptyMap
    /\ mutex' = 0
    /\ Return(p, Result("nil", <<>>))
    /\ UNCHANGED <<lastload, disk, op, wrote, fatal, calls, extEver, was, File, dflt, prev, quiet, stale,
                   torn>>

\* NewMapFrom(file): a new store on the same file (the process starts
\* again): NewMap, the assignment of File, then loadFile.
NewMapFrom(p) ==
    /\ \A q \in Procs : pc[q] = "idle"
    /\ Begin(p, [name |-> "NewMapFrom", key |-> <<>>, val |-> <<>>], "open")
    /\ M' = EmptyMap
    /\ lastload' = 0

\* ------------------------------------------------------------- data races
\* p's next step writes the map.
MapWrite(p) ==
    \/ pc[p] = "op" /\ op[p].name \in {"Set", "Delete"}
    \/ pc[p] = "parse" /\ idx[p] < Len(Lines(buf[p]))
    \/ pc[p] = "clear"

\* p's next step reads the map.
MapRead(p) ==
    \/ pc[p] = "op" /\ op[p].name \in {"Get", "Match", "Set"}
    \/ pc[p] = "marshal"

\* Two callers are at map accesses, one of them a write. No two callers can
\* both hold the mutex there, so nothing orders the accesses: the Go runtime
\* may let them through or end the process with "concurrent map writes" or
\* "concurrent map read and map write".
MapRace ==
    \E p, q \in Procs : p # q /\ MapWrite(p) /\ (MapRead(q) \/ MapWrite(q))

RaceFatal ==
    /\ fatal = "none"
    /\ MapRace
    /\ fatal' = "race"
    /\ UNCHANGED <<M, lastload, mutex, disk, pc, op, buf, idx, out, ret, wrote,
                   calls, extEver, was, File, dflt, pre, prev, quiet, stale, torn>>

\* ----------------------------------------------------------- environment
\* The store can still act: the environment's steps matter only then.
Running == fatal = "none" /\ (calls < MaxCalls \/ \E p \in Procs : pc[p] # "idle")

Disturb ==
    /\ quiet' = [p \in Procs |-> FALSE]
    /\ prev' = [p \in Procs |-> NoPrev]
    /\ extEver' = TRUE
    /\ was' = [p \in Procs |-> NoWas]

\* Another process or an editor rewrites the backing file.
ExtWrite ==
    /\ Running
    /\ \E c \in FileTexts, t \in WriteTimes :
        /\ [exists |-> TRUE, content |-> c, mtime |-> t] # disk
        /\ disk' = [exists |-> TRUE, content |-> c, mtime |-> t]
    /\ Disturb
    /\ UNCHANGED <<M, lastload, mutex, pc, op, buf, idx, out, ret, wrote, fatal,
                   calls, File, dflt, pre, stale, torn>>

\* Another process removes the backing file.
ExtRemove ==
    /\ Running
    /\ disk.exists
    /\ disk' = [exists |-> FALSE, content |-> <<>>, mtime |-> disk.mtime]
    /\ Disturb
    /\ UNCHANGED <<M, lastload, mutex, pc, op, buf, idx, out, ret, wrote, fatal,
                   calls, File, dflt, pre, stale, torn>>

\* --------------------------------------------------------- specifications
\* The steps of a call in progress.
Step(p) ==
    \/ fileHasChanged(p)
    \/ loadFileError(p)
    \/ loadFileRead(p)
    \/ loadFileStat(p)
    \/ UnmarshalTextLock(p)
    \/ UnmarshalTextLine(p)
    \/ UnmarshalTextUnlock(p)
    \/ GetLookup(p)
    \/ MatchPanic(p)
    \/ MatchScan(p)
    \/ SetSame(p)
    \/ SetStore(p)
    \/ DeleteKey(p)
    \/ MarshalText(p)
    \/ Overwrite(p)
    \/ ClearLock(p)
    \/ Clear(p)

\* Two callers in one process on one store; nothing else touches the file.
Next ==
    \/ \E p \in Procs :
        \/ CallGet(p, Keys)
        \/ CallMatch(p)
        \/ CallSet(p, Keys, Vals)
        \/ CallDelete(p, Keys)
        \/ CallClear(p)
        \/ CallLoad(p)
        \/ Step(p)
        \/ MarshalTextBlocked(p)
    \/ RaceFatal

Spec == Init /\ [][Next]_vars

\* One caller, with values that need escaping, a file other processes
\* rewrite and remove, and restarts of the store on the same file.
NextEnv ==
    \/ CallGet(1, Keys)
    \/ CallMatch(1)
    \/ CallSet(1, Keys, ValsEnv)
    \/ CallDelete(1, Keys)
    \/ CallClear(1)
    \/ CallLoad(1)
    \/ NewMapFrom(1)
    \/ Step(1)
    \/ ExtWrite
    \/ ExtRemove

SpecEnv == Init /\ [][NextEnv]_vars

\* One caller using the whole of the API, Init included, with any string as
\* a key, on a store that may have no path.
NextApi ==
    \/ CallInit(1)
    \/ InitPath(1)
    \/ InitDefaultFileError(1)
    \/ InitExists(1)
    \/ InitTouch(1)
    \/ CallGet(1, KeysAny)
    \/ CallMatch(1)
    \/ CallSet(1, KeysAny, Vals)
    \/ CallDelete(1, KeysAny)
    \/ CallClear(1)
    \/ CallLoad(1)
    \/ Step(1)
    \/ OverwriteError(1)

SpecApi == InitApi /\ [][NextApi]_vars

\* ------------------------------------------------------------ properties
\* Caller p's last call was o and has returned.
Done(p, o) == pc[p] = "idle" /\ op[p].name = o

\* C1 (staleness refresh). When the file's modification time is after
\* lastload as a Get(k) begins, and nothing outside the store touches the
\* file during the call, the Get returns the value the file holds for k, for
\* every key k the file holds, with no explicit reload.
C1_StalenessRefresh ==
    \A p \in Procs :
        (/\ Done(p, "Get")
         /\ stale[p]
         /\ quiet[p]
         /\ disk.exists
         /\ op[p].key \in DOMAIN Parse(disk.content))
        => ret[p] = Result("nil", Parse(disk.content)[op[p].key])

\* A Get, the store's first call, has returned b's value from a file that
\* was rewritten (time 2) after the store was constructed.
C1_Witness ==
    /\ calls = 1
    /\ Done(1, "Get")
    /\ stale[1]
    /\ quiet[1]
    /\ disk.exists
    /\ disk.mtime = 2
    /\ op[1].key = KB
    /\ ret[1] = Result("nil", <<"2">>)

\* The load of a file by p has merged the last line (loadFile from
\* NewMapFrom or refresh, not Load of a caller's text).
LoadDone(p) ==
    /\ pc[p] = "parse"
    /\ op[p].name # "Load"
    /\ idx[p] = Len(Lines(buf[p]))

\* C2 as claimed (exact load). After a load of the file the entries are
\* exactly the pairs parsed from the content read: a key that was in memory
\* and is not in the file is gone.
C2_LoadExact ==
    \A p \in Procs : LoadDone(p) => M = Parse(buf[p])

\* m is old overlaid with new: new's pairs, and old's for the other keys.
Overlaid(m, old, new) ==
    /\ DOMAIN m = DOMAIN old \cup DOMAIN new
    /\ \A k \in DOMAIN new : m[k] = new[k]
    /\ \A k \in DOMAIN old \ DOMAIN new : m[k] = old[k]

\* C2 as amended (load merges). After a load of the file every pair parsed
\* from the content read is in the entries, and every key that was in memory
\* and is not in the file keeps its value; the load of NewMapFrom, into an
\* empty map, gives exactly the file's pairs.
C2_LoadMerges ==
    \A p \in Procs :
        LoadDone(p) =>
            /\ Overlaid(M, pre[p], Parse(buf[p]))
            /\ op[p].name = "NewMapFrom" => M = Parse(buf[p])

\* A reload has completed over a map that held a key the file does not.
C2_Witness ==
    \E p \in Procs :
        /\ LoadDone(p)
        /\ op[p].name = "Get"
        /\ DOMAIN pre[p] \ DOMAIN Parse(buf[p]) # {}

\* p's Set or Delete has returned success and nothing outside the store has
\* touched the file since the call began.
Saved(p) ==
    /\ Done(p, "Set") \/ Done(p, "Delete")
    /\ ret[p].err = "nil"
    /\ quiet[p]

\* No value of m holds a backslash: unescaping then inverts escaping (the
\* other values are the matter of C7).
Plain(m) == \A k \in DOMAIN m : Index(m[k], BSL) = 0

\* C3 as claimed (file mirrors memory). After every Set or Delete that
\* returns success, parsing the file gives exactly the entries. Stated for
\* the entries whose values hold no backslash, so that what refutes it is
\* not the escaping of C7.
C3_FileMirrorsEntries ==
    \A p \in Procs :
        (Saved(p) /\ ~extEver /\ Plain(M))
        => disk.exists /\ Parse(disk.content) = M

\* C3 as amended. After every Delete, and every Set that is not
\* write-suppressed, that returns success, the file's content is a
\* serialization of the entries: one key=escaped value line per entry, in
\* some order, and nothing else.
C3_FileIsSerialization ==
    \A p \in Procs :
        (Saved(p) /\ wrote[p]) => disk.exists /\ disk.content \in MarshalTexts(M)

\* A Set after a Load has saved a map of two entries.
C3_Witness ==
    /\ Saved(1)
    /\ wrote[1]
    /\ op[1].name = "Set"
    /\ prev[1].op.name = "Load"
    /\ Cardinality(DOMAIN M) = 2

\* C4 (no lost write). Once Set(k1, v1) and Set(k2, v2), k1 # k2, made by
\* the two callers as their only calls, have both returned success, the file
\* holds k1=v1 and k2=v2.
C4_NoLostWrite ==
    (/\ calls = 2
     /\ Done(1, "Set") /\ ret[1].err = "nil"
     /\ Done(2, "Set") /\ ret[2].err = "nil"
     /\ op[1].key # op[2].key)
    => /\ disk.exists
       /\ \A p \in Procs :
            /\ op[p].key \in DOMAIN Parse(disk.content)
            /\ Parse(disk.content)[op[p].key] = op[p].val

\* C5 (no half-merged read). No Get or Match returns a value that comes
\* from a map another caller's reload has merged only part of the file into.
C5_NoHalfMergedRead == ~torn

\* C6 (one lock guards the map). A caller whose next step reads or writes
\* the map holds the mutex, so no two callers are at a map access together.
C6_MutexGuardsMap ==
    /\ \A p \in Procs : (MapRead(p) \/ MapWrite(p)) => mutex = p
    /\ ~MapRace

\* The call p completed before its last one was a successful Set(k, v), and
\* nothing outside the store touched the file since that Set began.
AfterSet(p, k, v) ==
    /\ prev[p].op = [name |-> "Set", key |-> k, val |-> v]
    /\ prev[p].ret.err = "nil"
    /\ quiet[p]

\* C7 (round trip). After a successful Set(k, v), a Get(k) on the same
\* store returns v, and a new store loaded from the same file holds v for k.
C7_RoundTrip ==
    \A p \in Procs : \A k \in Keys, v \in ValsEnv :
        AfterSet(p, k, v) =>
            /\ (Done(p, "Get") /\ op[p].key = k) => ret[p] = Result("nil", v)
            /\ (Done(p, "NewMapFrom") /\ ret[p].err = "nil")
                  => k \in DOMAIN M /\ M[k] = v

\* C8 (write suppression). The second of two successive Set(k, v) returns
\* success and does not write the file.
C8_SecondSetWritesNothing ==
    \A p \in Procs :
        (Done(p, "Set") /\ AfterSet(p, op[p].key, op[p].val))
        => ret[p].err = "nil" /\ ~wrote[p]

\* Load by p has merged the last line of its text.
LoadTextDone(p) ==
    /\ pc[p] = "parse"
    /\ op[p].name = "Load"
    /\ idx[p] = Len(Lines(buf[p]))

\* C9 (Load merges). Load(text) adds or overwrites the keys of text only:
\* every other entry keeps its value.
C9_LoadMergesText ==
    \A p \in Procs :
        LoadTextDone(p) => Overlaid(M, pre[p], Parse(op[p].val))

\* Load("b=2") has completed on a map that held a, and holds both.
C9_Witness ==
    /\ LoadTextDone(1)
    /\ op[1].val = <<"b", "=", "2">>
    /\ KA \in DOMAIN pre[1]
    /\ DOMAIN M = {KA, KB}

\* C10 (invalid pattern). A Match whose pattern does not compile returns an
\* InvalidPattern error: the process does not panic.
C10_InvalidPatternIsAnError ==
    /\ fatal # "panic"
    /\ \A p \in Procs :
        (Done(p, "Match") /\ ~Compiles(op[p].key)) => ret[p].err = "InvalidPattern"

\* ------------------------------------------------------------------ C11
\* The operations that refresh before they act.
Refreshing == {"Get", "Set", "Match", "Delete"}

\* C11: a Get, Set, Match or Delete that finds the backing file missing
\* when it refreshes returns the I/O error of the reload: it does not go on
\* to its lookup or its mutation, it writes nothing, and the map is as it
\* was.
C11_ReloadFailureSurfaced ==
    \A p \in Procs :
        (op[p].name \in Refreshing /\ quiet[p] /\ ~was[p].disk.exists)
        => /\ pc[p] \notin {"op", "marshal", "write"}
           /\ pc[p] = "idle" =>
                (ret[p].err = "IOError" /\ ~wrote[p] /\ M = was[p].M)

\* ------------------------------------------------------------------ C12
\* Line l assigns key k: l is k, an "=", and the value, and k has no "=" in
\* it (the line is cut at its first "=").
Assigns(l, k) ==
    /\ Len(l) > Len(k)
    /\ SubSeq(l, 1, Len(k)) = k
    /\ l[Len(k) + 1] = EQ
    /\ \A i \in 1..Len(k) : k[i] # EQ

\* The keys the lines of text assign.
LineKeys(text) ==
    LET ls == Lines(text)
        starts == {IF j <= Len(ls[i]) THEN SubSeq(ls[i], 1, j) ELSE <<>> :
                       i \in 1..Len(ls), j \in 0..Len(text)}
    IN {k \in starts : \E i \in 1..Len(ls) : Assigns(ls[i], k)}

\* C12: Load returns no error. Each line of its text is cut at its first
\* "=" only, a line without "=" changes nothing, and of the lines for one
\* key the last one gives the value; a key no line assigns is as before.
C12_LoadToleratesMalformedLines ==
    \A p \in Procs :
        /\ Done(p, "Load") => ret[p].err = "nil"
        /\ LoadTextDone(p) =>
            LET ls == Lines(op[p].val)
            IN \A k \in DOMAIN M \cup DOMAIN pre[p] \cup LineKeys(op[p].val) :
                LET hits == {i \in 1..Len(ls) : Assigns(ls[i], k)}
                IN IF hits = {}
                   THEN /\ k \in DOMAIN M <=> k \in DOMAIN pre[p]
                        /\ k \in DOMAIN M => M[k] = pre[p][k]
                   ELSE LET l == ls[CHOOSE i \in hits : \A h \in hits : h <= i]
                        IN /\ k \in DOMAIN M
                           /\ M[k] = UnEscReturns(SubSeq(l, Len(k) + 2, Len(l)))

\* Load of a=1, x, b=2, a=2=2 into an empty store gives exactly a -> 2=2
\* and b -> 2: the line x is skipped and the last line for a wins.
C12_Witness ==
    /\ LoadTextDone(1)
    /\ pre[1] = EmptyMap
    /\ Len(Lines(op[1].val)) = 4
    /\ M = Put(Put(EmptyMap, KA, <<"2", "=", "2">>), KB, <<"2">>)

\* ------------------------------------------------------------------ C13
\* p's Delete of a key the store did not hold as the call began has
\* returned, and nothing outside the store touched the file meanwhile.
DeletedAbsent(p) ==
    /\ Done(p, "Delete")
    /\ quiet[p]
    /\ op[p].key \notin DOMAIN was[p].M

\* C13 as stated: Delete of an absent key returns success whatever the state
\* of the store and of its file, and every other entry is as it was.
C13_DeleteAbsentAlwaysSucceeds ==
    \A p \in Procs :
        DeletedAbsent(p)
        => /\ ret[p].err = "nil"
           /\ \A k \in DOMAIN was[p].M :
                k \in DOMAIN M /\ M[k] = was[p].M[k]

\* C13, amended: Delete of an absent key returns success exactly when the
\* backing file exists as it refreshes. Then every other entry is still
\* there, with its value, or with the file's value when the refresh
\* reloaded a changed file. With the file missing Delete returns the I/O
\* error, and the entries and the file are as they were.
C13_DeleteAbsentSucceedsWithFile ==
    \A p \in Procs :
        DeletedAbsent(p)
        => /\ ret[p].err = (IF was[p].disk.exists THEN "nil" ELSE "IOError")
           /\ ~was[p].disk.exists
                => (M = was[p].M /\ disk = was[p].disk /\ ~wrote[p])
           /\ was[p].disk.exists
                => \A k \in DOMAIN was[p].M :
                    /\ k \in DOMAIN M
                    /\ \/ M[k] = was[p].M[k]
                       \/ /\ stale[p]
                          /\ k \in DOMAIN Parse(was[p].disk.content)
                          /\ M[k] = Parse(was[p].disk.content)[k]

\* Delete of a, absent, succeeded and b is still there with its value.
C13_Witness ==
    /\ DeletedAbsent(1)
    /\ op[1].key = KA
    /\ ret[1].err = "nil"
    /\ KB \in DOMAIN was[1].M
    /\ KB \in DOMAIN M
    /\ M[KB] = was[1].M[KB]

\* ------------------------------------------------------------------ C14
\* C14: Get(k) returns NotFound carrying k exactly when k is not in the
\* entries after its refresh, and otherwise the value with no error: a key
\* whose value is the empty string is found.
C14_NotFoundIffAbsent ==
    \A p \in Procs :
        Done(p, "Get")
        => /\ ret[p].err \in {"nil", "NotFound"}
           /\ ret[p].err = "NotFound" <=> op[p].key \notin DOMAIN M
           /\ ret[p].err = "NotFound" => ret[p].val = op[p].key
           /\ ret[p].err = "nil" => ret[p].val = M[op[p].key]

\* A Get found a key whose value is the empty string.
C14_Witness ==
    /\ Done(1, "Get")
    /\ op[1].key \in DOMAIN M
    /\ M[op[1].key] = <<>>
    /\ ret[1] = Result("nil", <<>>)

\* ------------------------------------------------------------------ C15
\* C15: when Clear has returned, the entries are empty, and the file (its
\* existence, content and modification time) and lastload are what they
\* were as the call began, nothing outside the store having touched the
\* file meanwhile.
C15_ClearIsMemoryOnly ==
    \A p \in Procs :
        (Done(p, "Clear") /\ quiet[p])
        => /\ ret[p].err = "nil"
           /\ M = EmptyMap
           /\ disk = was[p].disk
           /\ lastload = was[p].lastload
           /\ ~wrote[p]

\* Clear emptied a store that held entries loaded from a file with content.
C15_Witness ==
    /\ Done(1, "Clear")
    /\ quiet[1]
    /\ was[1].M # EmptyMap
    /\ was[1].lastload > 0
    /\ disk.exists
    /\ disk.content # <<>>
    /\ M = EmptyMap

\* ------------------------------------------------------------------ C16
\* The line the file holds for key k with value v, for a value with nothing
\* to escape.
FileLine(k, v) == k \o <<EQ>> \o v \o <<LF>>

\* p's Set(k2, v2) has returned success, straight after its Set(k1, v1)
\* which left the file holding the line of k1 only; the keys differ, the
\* values are plain, and nothing outside the store has touched the file.
SetTwice(p) ==
    /\ Done(p, "Set")
    /\ ret[p].err = "nil"
    /\ quiet[p]
    /\ ~extEver
    /\ prev[p].op.name = "Set"
    /\ prev[p].ret.err = "nil"
    /\ prev[p].op.key # op[p].key
    /\ {prev[p].op.val, op[p].val} \subseteq {<<"1">>, <<>>}
    /\ was[p].disk.exists
    /\ was[p].disk.content = FileLine(prev[p].op.key, prev[p].op.val)

\* C16: after Set(k1, v1) then Set(k2, v2) with different keys, the file
\* holds exactly the line k1=v1 followed by the line k2=v2 (k2= for an empty
\* value).
C16_SetsAccumulateInOrder ==
    \A p \in Procs :
        SetTwice(p)
        => disk.content = FileLine(prev[p].op.key, prev[p].op.val)
                            \o FileLine(op[p].key, op[p].val)

\* ------------------------------------------------------------------ C17
\* C17: when Init has returned success on a store whose path was not set,
\* the path of the store is the default path, the file there exists, and
\* the entries are as they were.
C17_InitSetsDefaultPath ==
    \A p \in Procs :
        (Done(p, "Init") /\ ret[p].err = "nil" /\ was[p].File = NoPath)
        => /\ File = DefaultPath
           /\ dflt
           /\ M = was[p].M

\* ------------------------------------------------------------------ C18
\* C18: every key of the entries is non-empty and holds no "=".
C18_KeysWellFormed ==
    \A k \in DOMAIN M :
        /\ k # <<>>
        /\ \A i \in 1..Len(k) : k[i] # EQ

\* ------------------------------------------------------------------ C19
\* C19: the modification time a load records as lastload is that of the
\* file version it parsed: at the step where loadFile takes the time from
\* the file, the content it has read is still the content of the file, so
\* no rewrite is dated as already loaded.
C19_LastloadDatesContentRead ==
    [][\A p \in Procs :
        (pc[p] = "fstat" /\ pc'[p] = "lock" /\ disk.exists)
        => buf[p] = disk.content]_vars

\* ------------------------------------------------------------------ C20
\* C20: no caller ends up waiting for a lock that nothing releases: the
\* lock MarshalText takes on its copy of the store can always be acquired,
\* so every call can go on to return.
C20_NoCallerBlocksForever ==
    \A p \in Procs : pc[p] # "hung"

====
